---- MODULE Spec2Model ----
(***************************************************************************)
(* Model of the gingerbread-house generator (create_gingerbread_house.py). *)
(*                                                                         *)
(* Lengths.  The module constants of the script are inches; the model      *)
(* holds them in hundredths of an inch (0.15 in = 15).  Every length the   *)
(* script computes is in millimetres; the model holds it in units of       *)
(* 1/6000 mm, so that INCH_TO_MM (25.4 mm per inch) is 1524 units per      *)
(* hundredth of an inch, the literal 1 (mm) of `thickness + 1` is 6000     *)
(* units, and every division by 2, 3 or 4 the script performs is exact.    *)
(* 101.6 mm is 609600 units, 3.81 mm is 22860 units, 76.2 mm is 457200.    *)
(*                                                                         *)
(* Solids.  The CadQuery kernel is outside the repository; a solid is      *)
(* modelled by the sequence of kernel operations that produced it (a base  *)
(* primitive, then cuts and unions of primitives), each primitive held     *)
(* with its exact position, so that bounding boxes and volumes of the      *)
(* box-shaped parts can be computed.                                       *)
(***************************************************************************)
EXTENDS Integers, Sequences, FiniteSets, TLC

VARIABLES
    dims,       \* the module-level dimension constants (lines 31-69)
    pc,         \* position of main(): "build", "export", "done", "aborted"
    cur,        \* index of the part main() is building or exporting
    ip,         \* number of kernel operations done in the current assembler
    regs,       \* locals of the running assembler: wall (the part), tool
    pieces,     \* main()'s locals front_wall .. chimney, once assigned
    exported,   \* the export_piece calls made so far, in order
    oplog,      \* the kernel operations performed so far, in order
    failed,     \* the operation that raised, when pc = "aborted"
    ppc,        \* parallel run: next phase of every part pipeline
    pregs,      \* parallel run: the locals of every part pipeline
    dims0,      \* parallel run: the constants as they were at start
    awidth, aheight, aarch,  \* arched-opening call: the arguments
    apoints,    \* arched-opening call: the point list built
    adepth,     \* arched-opening call: the depth argument
    apc,        \* arched-opening call: "args", "profile", "extruded", "returned"
    installed,  \* holiday sign: the font files present on the machine
    stext,      \* holiday sign: len(text) of the create_text_piece calls
    spc,        \* holiday sign: position of create_text_piece, per variant
    spath,      \* holiday sign: font_path, per variant
    sresult,    \* holiday sign: what create_text_piece returned, per variant
    scaught     \* holiday sign: the exception its handler caught, per variant

vars == <<dims, pc, cur, ip, regs, pieces, exported, oplog, failed,
          ppc, pregs, dims0, awidth, aheight, aarch, adepth, apoints, apc,
          installed, stext, spc, spath, sresult, scaught>>

mainVars == <<dims, pc, cur, ip, regs, pieces, exported, oplog, failed>>
parVars == <<ppc, pregs, dims0>>
archVars == <<awidth, aheight, aarch, adepth, apoints, apc>>
signVars == <<installed, stext, spc, spath, sresult, scaught>>

-----------------------------------------------------------------------------
(* Units and module constants                                              *)

INCH_TO_MM == 1524
OneMm == 6000
ARCH_SEGMENTS == 16
None == -1

\* The constants of lines 38-69, in hundredths of an inch.
DefaultDimensions ==
    [ WALL_THICKNESS |-> 15, HOUSE_WIDTH |-> 400, HOUSE_DEPTH |-> 300,
      WALL_HEIGHT |-> 300, PEAK_HEIGHT |-> 150,
      DOOR_WIDTH |-> 80, DOOR_HEIGHT |-> 150, DOOR_OFFSET_Y |-> 10,
      WINDOW_WIDTH |-> 60, WINDOW_HEIGHT |-> 60, WINDOW_OFFSET_Y |-> 120,
      ROOF_OVERHANG |-> 30, ROOF_THICKNESS |-> 15,
      CHIMNEY_WIDTH |-> 60, CHIMNEY_DEPTH |-> 50, CHIMNEY_HEIGHT |-> 100,
      TAB_WIDTH |-> 30, TAB_DEPTH |-> 15, TAB_HEIGHT |-> 30,
      TAB_TOLERANCE |-> 1 ]

-----------------------------------------------------------------------------
(* Small helpers                                                           *)

Min(a, b) == IF a < b THEN a ELSE b
Max(a, b) == IF a > b THEN a ELSE b
Abs(a) == IF a < 0 THEN -a ELSE a

RECURSIVE SqrtSearch(_, _, _)
SqrtSearch(n, lo, hi) ==
    IF lo >= hi THEN lo
    ELSE LET mid == (lo + hi + 1) \div 2
         IN IF mid * mid <= n THEN SqrtSearch(n, mid, hi)
            ELSE SqrtSearch(n, lo, mid - 1)

\* math.sqrt on a non-negative integer below 2^31, rounded down.
ISqrt(n) == SqrtSearch(n, 0, 46340)

Vec(x, y, z) == <<x, y, z>>
VAdd(u, v) == <<u[1] + v[1], u[2] + v[2], u[3] + v[3]>>

-----------------------------------------------------------------------------
(* The geometry kernel (CadQuery), as far as the script uses it            *)

\* A primitive: a box centred on `off`, or a profile `pts` (each coordinate
\* multiplied by `scale`) drawn on a named workplane and extruded by size[3]
\* along the workplane's normal, then moved by `off`.
BoxPrim(w, d, h) ==
    [kind |-> "box", size |-> <<w, d, h>>, plane |-> "XY", pts |-> <<>>,
     scale |-> 1, off |-> <<0, 0, 0>>]
PrismPrim(plane, pts, scale, depth) ==
    [kind |-> "prism", size |-> <<0, 0, depth>>, plane |-> plane, pts |-> pts,
     scale |-> scale, off |-> <<0, 0, 0>>]

\* cq.Workplane("XY").box(w, d, h): a box centred at the origin.
Box(w, d, h) == <<[op |-> "base", shape |-> BoxPrim(w, d, h)]>>

\* cq.Workplane(plane).polyline(pts).close().extrude(depth).
Extrude(plane, pts, scale, depth) ==
    <<[op |-> "base", shape |-> PrismPrim(plane, pts, scale, depth)]>>

\* solid.translate(v): every primitive of the solid moves by v.
Translate(s, v) ==
    [i \in 1..Len(s) |-> [s[i] EXCEPT !.shape.off = VAdd(@, v)]]

\* a.cut(b) and a.union(b); b is a primitive solid at every call site.
Cut(a, b) == Append(a, [op |-> "cut", shape |-> b[1].shape])
Union(a, b) == Append(a, [op |-> "union", shape |-> b[1].shape])

\* Extent of a profile along its first (k = 1) or second (k = 2) coordinate.
PtsMin(pts, k) == CHOOSE m \in {pts[i][k] : i \in 1..Len(pts)} :
                      \A i \in 1..Len(pts) : m <= pts[i][k]
PtsMax(pts, k) == CHOOSE m \in {pts[i][k] : i \in 1..Len(pts)} :
                      \A i \in 1..Len(pts) : m >= pts[i][k]

\* The workplane's normal: "XY" extrudes towards +Z; "XZ" has its local
\* axes on global X and Z and its normal on -Y, so it extrudes towards -Y.
PrimLo(p) ==
    IF p.kind = "box"
    THEN <<p.off[1] - p.size[1] \div 2, p.off[2] - p.size[2] \div 2,
           p.off[3] - p.size[3] \div 2>>
    ELSE IF p.plane = "XZ"
    THEN <<p.off[1] + PtsMin(p.pts, 1) \div p.scale, p.off[2] - p.size[3],
           p.off[3] + PtsMin(p.pts, 2) \div p.scale>>
    ELSE <<p.off[1] + PtsMin(p.pts, 1) \div p.scale,
           p.off[2] + PtsMin(p.pts, 2) \div p.scale, p.off[3]>>

PrimHi(p) ==
    IF p.kind = "box"
    THEN <<p.off[1] + p.size[1] \div 2, p.off[2] + p.size[2] \div 2,
           p.off[3] + p.size[3] \div 2>>
    ELSE IF p.plane = "XZ"
    THEN <<p.off[1] + PtsMax(p.pts, 1) \div p.scale, p.off[2],
           p.off[3] + PtsMax(p.pts, 2) \div p.scale>>
    ELSE <<p.off[1] + PtsMax(p.pts, 1) \div p.scale,
           p.off[2] + PtsMax(p.pts, 2) \div p.scale, p.off[3] + p.size[3]>>

PrimBBox(p) == [lo |-> PrimLo(p), hi |-> PrimHi(p)]

HullBox(a, b) ==
    [lo |-> <<Min(a.lo[1], b.lo[1]), Min(a.lo[2], b.lo[2]), Min(a.lo[3], b.lo[3])>>,
     hi |-> <<Max(a.hi[1], b.hi[1]), Max(a.hi[2], b.hi[2]), Max(a.hi[3], b.hi[3])>>]

MeetBox(a, b) ==
    [lo |-> <<Max(a.lo[1], b.lo[1]), Max(a.lo[2], b.lo[2]), Max(a.lo[3], b.lo[3])>>,
     hi |-> <<Min(a.hi[1], b.hi[1]), Min(a.hi[2], b.hi[2]), Min(a.hi[3], b.hi[3])>>]

IsEmptyBox(b) == \E k \in 1..3 : b.lo[k] >= b.hi[k]

\* Outside the cases the model computes: evaluating it stops the check.
Unsupported == CHOOSE v \in {} : TRUE

\* Volumes are counted in cubes of one quantum, 1/400 inch: every face of
\* every box the script builds lies on a multiple of it (the inch constants
\* are hundredths, and the script halves and quarters them), and a volume
\* in cubic model units would not fit an integer.
LengthQuantum == INCH_TO_MM \div 4
Quanta(len) == IF len % LengthQuantum = 0 THEN len \div LengthQuantum
               ELSE Unsupported

\* Volume of a box; 0 when it is empty (some lo >= hi).
BoxVolume(b) ==
    IF IsEmptyBox(b) THEN 0
    ELSE Quanta(b.hi[1] - b.lo[1]) * Quanta(b.hi[2] - b.lo[2])
         * Quanta(b.hi[3] - b.lo[3])

\* Axis-aligned bounding box of a solid: the base and every unioned
\* primitive count; no cutting tool of the script removes a whole end of
\* its host, so a cut leaves the box as it is.
RECURSIVE BBoxUpTo(_, _)
BBoxUpTo(s, n) ==
    IF n = 1 THEN PrimBBox(s[1].shape)
    ELSE IF s[n].op = "union"
         THEN HullBox(BBoxUpTo(s, n - 1), PrimBBox(s[n].shape))
         ELSE BBoxUpTo(s, n - 1)
BBox(s) == BBoxUpTo(s, Len(s))

\* Volume of the part of solid s[1..n] inside the box K.  Exact for a box
\* base combined with box tools; a profile tool (an opening) is followed
\* only where it misses K or the host altogether.
RECURSIVE VolumeWithinUpTo(_, _, _)
VolumeWithinUpTo(s, n, K) ==
    IF IsEmptyBox(K) THEN 0
    ELSE IF n = 1
    THEN IF s[1].shape.kind = "box"
         THEN BoxVolume(MeetBox(PrimBBox(s[1].shape), K))
         ELSE IF IsEmptyBox(MeetBox(PrimBBox(s[1].shape), K)) THEN 0
         ELSE Unsupported
    ELSE LET T == PrimBBox(s[n].shape)
             TK == MeetBox(T, K)
             before == VolumeWithinUpTo(s, n - 1, K)
         IN IF s[n].shape.kind = "box"
            THEN IF s[n].op = "union"
                 THEN before + BoxVolume(TK) - VolumeWithinUpTo(s, n - 1, TK)
                 ELSE before - VolumeWithinUpTo(s, n - 1, TK)
            ELSE IF s[n].op = "cut"
                    /\ IsEmptyBox(MeetBox(TK, BBoxUpTo(s, n - 1)))
                 THEN before
                 ELSE Unsupported

Volume(s) == VolumeWithinUpTo(s, Len(s), BBox(s))

-----------------------------------------------------------------------------
(* create_arched_opening: the profile                                      *)

\* math.cos and math.sin of angle = pi - pi * i / ARCH_SEGMENTS, i = 0..16,
\* to three decimals, multiplied by TrigScale.
TrigScale == 1000
CosTable == <<-1000, -981, -924, -831, -707, -556, -383, -195, 0,
              195, 383, 556, 707, 831, 924, 981, 1000>>
SinTable == <<0, 195, 383, 556, 707, 831, 924, 981, 1000,
              981, 924, 831, 707, 556, 383, 195, 0>>
ArchCos(i) == CosTable[i + 1]
ArchSin(i) == SinTable[i + 1]

\* Profile points are held multiplied by 2 * TrigScale: the script halves
\* the width and multiplies by a cosine.
ProfileScale == 2 * TrigScale

\* Twice the arch height after the default (width / 2) and the clamp to
\* height (lines 85-90).
ArchHeight2(width, height, arch_height) ==
    LET a2 == IF arch_height = None THEN width ELSE 2 * arch_height
    IN IF a2 > 2 * height THEN 2 * height ELSE a2

\* Twice rect_height = max(0, height - arch_height) (line 93).
RectHeight2(width, height, arch_height) ==
    Max(0, 2 * height - ArchHeight2(width, height, arch_height))

\* The shoulder point appended whether or not there is a rectangular portion.
ShoulderAlways(sign, width, rect2) ==
    << <<sign * width * TrigScale, rect2 * TrigScale>> >>

\* The shoulder point at x = sign * width / 2, present only when there is
\* a rectangular portion (lines 102-103, 114-115).
Shoulder(sign, width, rect2) ==
    IF rect2 > 0 THEN << <<sign * width * TrigScale, rect2 * TrigScale>> >>
    ELSE <<>>

\* The loop run over range(0, ARCH_SEGMENTS + 1): both arch ends sampled too.
ArchSamplesWithEnds(width, rect2, arch2) ==
    [k \in 1..(ARCH_SEGMENTS + 1) |->
        <<width * ArchCos(k - 1), rect2 * TrigScale + arch2 * ArchSin(k - 1)>>]

\* The arch samples, i = 1 .. ARCH_SEGMENTS - 1 (lines 107-111).
ArchSamples(width, rect2, arch2) ==
    [i \in 1..(ARCH_SEGMENTS - 1) |->
        <<width * ArchCos(i), rect2 * TrigScale + arch2 * ArchSin(i)>>]

\* The list `points` of create_arched_opening (lines 97-117).
ArchPoints(width, height, arch_height) ==
    LET arch2 == ArchHeight2(width, height, arch_height)
        rect2 == RectHeight2(width, height, arch_height)
    IN << <<-width * TrigScale, 0>> >>
       \o Shoulder(-1, width, rect2)
       \o ArchSamples(width, rect2, arch2)
       \o Shoulder(1, width, rect2)
       \o << <<width * TrigScale, 0>> >>

-----------------------------------------------------------------------------
(* Assemblers as sequences of kernel operations                            *)

\* One kernel call of an assembler.  reg is the local it assigns ("wall":
\* the part being built, "tool": the opening, tab or inner box in hand).
IMake(phase, op, reg, val) ==
    [phase |-> phase, op |-> op, reg |-> reg, val |-> val, v |-> <<0, 0, 0>>]
ITranslate(phase, reg, v) ==
    [phase |-> phase, op |-> "translate", reg |-> reg, val |-> <<>>, v |-> v]
IBool(phase, op) ==
    [phase |-> phase, op |-> op, reg |-> "wall", val |-> <<>>, v |-> <<0, 0, 0>>]

NoRegs == [wall |-> <<>>, tool |-> <<>>]

\* The effect of one kernel call on the assembler's locals.
Exec(i, r) ==
    CASE i.op \in {"box", "extrude"} -> [r EXCEPT ![i.reg] = i.val]
      [] i.op = "translate" -> [r EXCEPT ![i.reg] = Translate(r[i.reg], i.v)]
      [] i.op = "cut" -> [r EXCEPT !.wall = Cut(r.wall, r.tool)]
      [] i.op = "union" -> [r EXCEPT !.wall = Union(r.wall, r.tool)]

RECURSIVE RunUpTo(_, _, _)
RunUpTo(r, prog, n) ==
    IF n = 0 THEN r ELSE Exec(prog[n], RunUpTo(r, prog, n - 1))
Run(r, prog) == RunUpTo(r, prog, Len(prog))

\* create_arched_opening (lines 119-130): extrude the profile on "XZ",
\* then translate by -depth / 2 along Y.
ArchedOpeningOps(phase, width, height, depth, arch_height) ==
    << IMake(phase, "extrude", "tool",
             Extrude("XZ", ArchPoints(width, height, arch_height),
                     ProfileScale, depth)),
       ITranslate(phase, "tool", <<0, -(depth \div 2), 0>>) >>

create_arched_opening(width, height, depth, arch_height) ==
    Run(NoRegs, ArchedOpeningOps("openings", width, height, depth, arch_height)).tool

\* A slot grown by the tolerance once instead of on both sides.
create_tab_grown_once(d, width, depth, height, is_slot) ==
    LET tolerance == IF is_slot THEN d.TAB_TOLERANCE * INCH_TO_MM ELSE 0
    IN Box(width + tolerance, depth + tolerance, height + tolerance)

\* create_tab (lines 146-154).
create_tab(d, width, depth, height, is_slot) ==
    LET tolerance == IF is_slot THEN d.TAB_TOLERANCE * INCH_TO_MM ELSE 0
    IN Box(width + tolerance * 2, depth + tolerance * 2, height + tolerance * 2)

\* The positions taken from the wall's width instead of its height.
WallTabPositionsFromWidth(wall_width, wall_height) ==
    <<wall_width \div 4, (wall_width * 3) \div 4>>

\* tab_positions_z (line 179).
WallTabPositionsZ(wall_width, wall_height) ==
    <<wall_height \div 4, (wall_height * 3) \div 4>>

\* A tab moved inwards instead of outwards by half the tab depth.
TabTranslationInwards(sign, wall_width, tab_d, z_pos) ==
    <<sign * (wall_width \div 2 - tab_d \div 2), 0, z_pos>>

\* The translation of a front/back tab (lines 186, 191) and of a side-wall
\* slot (lines 199, 204); sign is -1 for the left/back edge, 1 for the other.
TabTranslation(sign, wall_width, tab_d, z_pos) ==
    <<sign * (wall_width \div 2 + tab_d \div 2), 0, z_pos>>
SlotTranslation(sign, wall_width, tab_d, z_pos) ==
    <<sign * (wall_width \div 2), 0, z_pos>>

\* One pass of the loop body of add_wall_tabs (lines 183-192, 196-205).
WallTabOpsAt(d, wall_width, is_front_back, z_pos) ==
    LET tab_w == d.TAB_WIDTH * INCH_TO_MM
        tab_d == d.TAB_DEPTH * INCH_TO_MM
        tab_h == d.TAB_HEIGHT * INCH_TO_MM
        ph == "fasteners"
    IN IF is_front_back
       THEN << IMake(ph, "box", "tool", create_tab(d, tab_w, tab_d, tab_h, FALSE)),
               ITranslate(ph, "tool", TabTranslation(-1, wall_width, tab_d, z_pos)),
               IBool(ph, "union"),
               IMake(ph, "box", "tool", create_tab(d, tab_w, tab_d, tab_h, FALSE)),
               ITranslate(ph, "tool", TabTranslation(1, wall_width, tab_d, z_pos)),
               IBool(ph, "union") >>
       ELSE << IMake(ph, "box", "tool", create_tab(d, tab_w, tab_d, tab_h, TRUE)),
               ITranslate(ph, "tool", SlotTranslation(1, wall_width, tab_d, z_pos)),
               IBool(ph, "cut"),
               IMake(ph, "box", "tool", create_tab(d, tab_w, tab_d, tab_h, TRUE)),
               ITranslate(ph, "tool", SlotTranslation(-1, wall_width, tab_d, z_pos)),
               IBool(ph, "cut") >>

\* add_wall_tabs (lines 174-207): the loop over the two positions.
AddWallTabsOps(d, wall_width, wall_height, thickness, is_front_back) ==
    LET zs == WallTabPositionsZ(wall_width, wall_height)
    IN WallTabOpsAt(d, wall_width, is_front_back, zs[1])
       \o WallTabOpsAt(d, wall_width, is_front_back, zs[2])

add_wall_tabs(d, wall, wall_width, wall_height, thickness, is_front_back) ==
    Run([wall |-> wall, tool |-> <<>>],
        AddWallTabsOps(d, wall_width, wall_height, thickness, is_front_back)).wall

\* tab_positions_x (line 230).
RoofTabPositionsX(roof_width) == <<-(roof_width \div 4), roof_width \div 4>>

\* The translation of a roof tab (line 235).
RoofTabTranslation(x_pos, roof_length, thickness, tab_d, tab_h) ==
    <<x_pos, -(roof_length \div 2) - tab_d \div 2, -(thickness \div 2) - tab_h \div 2>>

RoofTabOpsAt(d, x_pos, roof_length, thickness) ==
    LET tab_w == d.TAB_WIDTH * INCH_TO_MM
        tab_d == d.TAB_DEPTH * INCH_TO_MM
        tab_h == d.TAB_HEIGHT * INCH_TO_MM
        ph == "fasteners"
    IN << IMake(ph, "box", "tool", create_tab(d, tab_w, tab_d, tab_h, FALSE)),
          ITranslate(ph, "tool",
                     RoofTabTranslation(x_pos, roof_length, thickness, tab_d, tab_h)),
          IBool(ph, "union") >>

\* add_roof_tabs (lines 224-238).
AddRoofTabsOps(d, roof_width, roof_length, thickness, side_wall_thickness) ==
    LET xs == RoofTabPositionsX(roof_width)
    IN RoofTabOpsAt(d, xs[1], roof_length, thickness)
       \o RoofTabOpsAt(d, xs[2], roof_length, thickness)

\* An opening cut into `wall`: create_arched_opening, a translate and a cut
\* (lines 267-269 and their like); every opening is thickness + 1 mm deep.
OpeningOps(width, height, thickness, at) ==
    ArchedOpeningOps("openings", width, height, thickness + OneMm, None)
    \o << ITranslate("openings", "tool", at), IBool("openings", "cut") >>

\* create_front_wall (lines 250-284).
FrontWallOps(d) ==
    LET width == d.HOUSE_WIDTH * INCH_TO_MM
        height == d.WALL_HEIGHT * INCH_TO_MM
        thickness == d.WALL_THICKNESS * INCH_TO_MM
        door_w == d.DOOR_WIDTH * INCH_TO_MM
        door_h == d.DOOR_HEIGHT * INCH_TO_MM
        door_off == d.DOOR_OFFSET_Y * INCH_TO_MM
        window_w == d.WINDOW_WIDTH * INCH_TO_MM
        window_h == d.WINDOW_HEIGHT * INCH_TO_MM
        window_off == d.WINDOW_OFFSET_Y * INCH_TO_MM
    IN << IMake("base", "box", "wall", Box(width, thickness, height)),
          ITranslate("base", "wall", <<0, 0, height \div 2>>) >>
       \o OpeningOps(door_w, door_h, thickness, <<0, 0, door_off>>)
       \o OpeningOps(window_w, window_h, thickness, <<-(width \div 3), 0, window_off>>)
       \o OpeningOps(window_w, window_h, thickness, <<width \div 3, 0, window_off>>)
       \o AddWallTabsOps(d, width, height, thickness, TRUE)

\* create_back_wall (lines 296-317).
BackWallOps(d) ==
    LET width == d.HOUSE_WIDTH * INCH_TO_MM
        height == d.WALL_HEIGHT * INCH_TO_MM
        thickness == d.WALL_THICKNESS * INCH_TO_MM
        window_w == d.WINDOW_WIDTH * INCH_TO_MM
        window_h == d.WINDOW_HEIGHT * INCH_TO_MM
        window_off == d.WINDOW_OFFSET_Y * INCH_TO_MM
    IN << IMake("base", "box", "wall", Box(width, thickness, height)),
          ITranslate("base", "wall", <<0, 0, height \div 2>>) >>
       \o OpeningOps(window_w, window_h, thickness, <<0, 0, window_off>>)
       \o AddWallTabsOps(d, width, height, thickness, TRUE)

\* The pentagon of create_side_wall (lines 339-345).
GablePoints(depth, height, peak) ==
    << <<-(depth \div 2), 0>>, <<depth \div 2, 0>>, <<depth \div 2, height>>,
       <<0, height + peak>>, <<-(depth \div 2), height>> >>

\* create_side_wall with add_wall_tabs called before the window is cut.
SideWallOpsSlotsFirst(d) ==
    LET depth == d.HOUSE_DEPTH * INCH_TO_MM
        height == d.WALL_HEIGHT * INCH_TO_MM
        peak == d.PEAK_HEIGHT * INCH_TO_MM
        thickness == d.WALL_THICKNESS * INCH_TO_MM
        window_w == d.WINDOW_WIDTH * INCH_TO_MM
        window_h == d.WINDOW_HEIGHT * INCH_TO_MM
        window_off == d.WINDOW_OFFSET_Y * INCH_TO_MM
    IN << IMake("base", "extrude", "wall",
                Extrude("XY", GablePoints(depth, height, peak), 1, thickness)),
          ITranslate("base", "wall", <<0, -(thickness \div 2), 0>>) >>
       \o AddWallTabsOps(d, depth, height, thickness, FALSE)
       \o OpeningOps(window_w, window_h, thickness, <<0, 0, window_off>>)

\* create_side_wall (lines 329-366).
SideWallOps(d) ==
    LET depth == d.HOUSE_DEPTH * INCH_TO_MM
        height == d.WALL_HEIGHT * INCH_TO_MM
        peak == d.PEAK_HEIGHT * INCH_TO_MM
        thickness == d.WALL_THICKNESS * INCH_TO_MM
        window_w == d.WINDOW_WIDTH * INCH_TO_MM
        window_h == d.WINDOW_HEIGHT * INCH_TO_MM
        window_off == d.WINDOW_OFFSET_Y * INCH_TO_MM
    IN << IMake("base", "extrude", "wall",
                Extrude("XY", GablePoints(depth, height, peak), 1, thickness)),
          ITranslate("base", "wall", <<0, -(thickness \div 2), 0>>) >>
       \o OpeningOps(window_w, window_h, thickness, <<0, 0, window_off>>)
       \o AddWallTabsOps(d, depth, height, thickness, FALSE)

\* roof_length (line 386): sqrt(depth^2 + peak^2) + overhang with
\* depth = HOUSE_DEPTH / 2, i.e. sqrt(HOUSE_DEPTH^2 + 4 PEAK_HEIGHT^2) / 2
\* inches; the root is rounded down to half a hundredth of an inch.
RoofLength(d) ==
    ISqrt(d.HOUSE_DEPTH * d.HOUSE_DEPTH + 4 * d.PEAK_HEIGHT * d.PEAK_HEIGHT)
        * (INCH_TO_MM \div 2)
    + d.ROOF_OVERHANG * INCH_TO_MM

\* create_roof_panel (lines 378-400).
RoofPanelOps(d) ==
    LET width == d.HOUSE_WIDTH * INCH_TO_MM
        overhang == d.ROOF_OVERHANG * INCH_TO_MM
        thickness == d.ROOF_THICKNESS * INCH_TO_MM
        side_wall_thickness == d.WALL_THICKNESS * INCH_TO_MM
        roof_length == RoofLength(d)
        roof_width == width + 2 * overhang
    IN << IMake("base", "box", "wall", Box(roof_width, roof_length, thickness)),
          ITranslate("base", "wall", <<0, 0, thickness \div 2>>) >>
       \o AddRoofTabsOps(d, roof_width, roof_length, thickness, side_wall_thickness)

\* create_chimney (lines 411-432).
ChimneyOps(d) ==
    LET width == d.CHIMNEY_WIDTH * INCH_TO_MM
        depth == d.CHIMNEY_DEPTH * INCH_TO_MM
        height == d.CHIMNEY_HEIGHT * INCH_TO_MM
        wall_thick == (d.WALL_THICKNESS * INCH_TO_MM) \div 2
    IN << IMake("base", "box", "wall", Box(width, depth, height)),
          IMake("openings", "box", "tool",
                Box(width - 2 * wall_thick, depth - 2 * wall_thick, height + OneMm)),
          IBool("openings", "cut"),
          ITranslate("finish", "wall", <<0, 0, height \div 2>>) >>

\* main()'s locals, in the order it assigns them (lines 473-481).
Parts == <<"front_wall", "back_wall", "left_side", "right_side",
           "roof_left", "roof_right", "chimney">>
NParts == Len(Parts)

\* The assembler main() calls for each local.
Program(d, part) ==
    CASE part = "front_wall" -> FrontWallOps(d)
      [] part = "back_wall" -> BackWallOps(d)
      [] part \in {"left_side", "right_side"} -> SideWallOps(d)
      [] part \in {"roof_left", "roof_right"} -> RoofPanelOps(d)
      [] part = "chimney" -> ChimneyOps(d)

\* What an assembler returns.
Assemble(d, part) == Run(NoRegs, Program(d, part)).wall

create_front_wall(d) == Assemble(d, "front_wall")
create_back_wall(d) == Assemble(d, "back_wall")
create_side_wall(d) == Assemble(d, "left_side")
create_roof_panel(d) == Assemble(d, "roof_left")
create_chimney(d) == Assemble(d, "chimney")

\* A copy-and-paste slip in the export block: two pieces under one name.
ExportListSharedName ==
    << [piece |-> "front_wall", filename |-> "gingerbread_front_wall.stl"],
       [piece |-> "back_wall", filename |-> "gingerbread_back_wall.stl"],
       [piece |-> "left_side", filename |-> "gingerbread_left_side.stl"],
       [piece |-> "right_side", filename |-> "gingerbread_left_side.stl"],
       [piece |-> "roof_left", filename |-> "gingerbread_roof_left.stl"],
       [piece |-> "roof_right", filename |-> "gingerbread_roof_right.stl"],
       [piece |-> "chimney", filename |-> "gingerbread_chimney.stl"] >>

\* The export_piece calls of main(), in order (lines 485-491).
ExportList ==
    << [piece |-> "front_wall", filename |-> "gingerbread_front_wall.stl"],
       [piece |-> "back_wall", filename |-> "gingerbread_back_wall.stl"],
       [piece |-> "left_side", filename |-> "gingerbread_left_side.stl"],
       [piece |-> "right_side", filename |-> "gingerbread_right_side.stl"],
       [piece |-> "roof_left", filename |-> "gingerbread_roof_left.stl"],
       [piece |-> "roof_right", filename |-> "gingerbread_roof_right.stl"],
       [piece |-> "chimney", filename |-> "gingerbread_chimney.stl"] >>

-----------------------------------------------------------------------------
(* main(): the sequential run                                              *)

PartSet == {Parts[k] : k \in 1..NParts}
NoFailure == [part |-> "", op |-> "", at |-> 0]

\* A helper that rebinds the module constant TAB_WIDTH (a `global`
\* statement) each time it unions a tab into a wall.
GlobalsAfterTabRebound(d, i) ==
    IF i.op = "union" THEN [d EXCEPT !.TAB_WIDTH = 10] ELSE d

\* What one kernel call of an assembler or helper writes to the module
\* constants: the functions of lines 72-432 assign locals only.
GlobalsAfter(d, i) == d

\* The two holiday-sign scripts: create_holiday_sign.py (FreeCAD) and
\* create_holiday_sign_standalone.py (CadQuery); get_font_path's None.
Variants == {"freecad", "standalone"}
NoFont == ""

\* The values the dimension constants are run with.  The first of each
\* set is the value in the script; DOOR_HEIGHT 350 exceeds every wall
\* height and TAB_HEIGHT 300 reaches it, so some sets break the invariant
\* of the Dimension Set.
HouseWidths == {400, 300}
HouseDepths == {300, 200}
WallHeights == {300, 200}
DoorHeights == {150, 350}
TabWidths == {30, 10}
TabHeights == {30, 300}

DimensionSets ==
    {[DefaultDimensions EXCEPT !.HOUSE_WIDTH = w, !.HOUSE_DEPTH = dp,
                               !.WALL_HEIGHT = h, !.DOOR_HEIGHT = dh,
                               !.TAB_WIDTH = tw, !.TAB_HEIGHT = th] :
        w \in HouseWidths, dp \in HouseDepths, h \in WallHeights,
        dh \in DoorHeights, tw \in TabWidths, th \in TabHeights}

IdlePar ==
    /\ ppc = [p \in PartSet |-> 0]
    /\ pregs = [p \in PartSet |-> NoRegs]
    /\ dims0 = DefaultDimensions
IdleArch ==
    /\ awidth = 0 /\ aheight = 0 /\ aarch = None /\ adepth = 0
    /\ apoints = <<>> /\ apc = "idle"
IdleSign ==
    /\ installed = {} /\ stext = 0
    /\ spc = [v \in Variants |-> "idle"]
    /\ spath = [v \in Variants |-> NoFont]
    /\ sresult = [v \in Variants |-> <<>>]
    /\ scaught = [v \in Variants |-> ""]
IdleMain ==
    /\ pc = "idle" /\ cur = 0 /\ ip = 0 /\ regs = NoRegs
    /\ pieces = [p \in PartSet |-> <<>>]
    /\ exported = <<>> /\ oplog = <<>> /\ failed = NoFailure

Init ==
    /\ dims \in DimensionSets
    /\ pc = "build" /\ cur = 1 /\ ip = 0 /\ regs = NoRegs
    /\ pieces = [p \in PartSet |-> <<>>]
    /\ exported = <<>> /\ oplog = <<>> /\ failed = NoFailure
    /\ IdlePar /\ IdleArch /\ IdleSign

CurProgram == Program(dims, Parts[cur])

\* The running assembler makes its next kernel call, which succeeds.
KernelStep ==
    /\ pc = "build" /\ ip < Len(CurProgram)
    /\ LET i == CurProgram[ip + 1]
       IN /\ regs' = Exec(i, regs)
          /\ dims' = GlobalsAfter(dims, i)
          /\ oplog' = Append(oplog, [part |-> Parts[cur], op |-> i.op,
                                     phase |-> i.phase])
    /\ ip' = ip + 1
    /\ UNCHANGED <<pc, cur, pieces, exported, failed>>
    /\ UNCHANGED <<parVars, archVars, signVars>>

\* The next kernel call raises.  Neither the assemblers nor main() catch
\* anything (lines 473-481), so the exception ends main().
KernelRaise ==
    /\ pc = "build" /\ ip < Len(CurProgram)
    /\ pc' = "aborted"
    /\ failed' = [part |-> Parts[cur], op |-> CurProgram[ip + 1].op, at |-> ip + 1]
    /\ UNCHANGED <<dims, cur, ip, regs, pieces, exported, oplog>>
    /\ UNCHANGED <<parVars, archVars, signVars>>

\* The assembler returns and main() assigns its local (lines 473-481);
\* after the last one main() turns to the exports.
Return ==
    /\ pc = "build" /\ ip = Len(CurProgram)
    /\ pieces' = [pieces EXCEPT ![Parts[cur]] = regs.wall]
    /\ regs' = NoRegs /\ ip' = 0
    /\ IF cur < NParts THEN cur' = cur + 1 /\ pc' = pc
       ELSE cur' = 1 /\ pc' = "export"
    /\ UNCHANGED <<dims, exported, oplog, failed>>
    /\ UNCHANGED <<parVars, archVars, signVars>>

\* export_piece (lines 444-447) for the next entry of lines 485-491.
ExportStep ==
    /\ pc = "export"
    /\ exported' = Append(exported,
                          [piece |-> ExportList[cur].piece,
                           filename |-> ExportList[cur].filename,
                           solid |-> pieces[ExportList[cur].piece]])
    /\ IF cur < Len(ExportList) THEN cur' = cur + 1 /\ pc' = pc
       ELSE cur' = cur /\ pc' = "done"
    /\ UNCHANGED <<dims, ip, regs, pieces, oplog, failed>>
    /\ UNCHANGED <<parVars, archVars, signVars>>

\* cq.exporters.export raises (line 445); main() ends.
ExportRaise ==
    /\ pc = "export"
    /\ pc' = "aborted"
    /\ failed' = [part |-> ExportList[cur].piece, op |-> "export", at |-> cur]
    /\ UNCHANGED <<dims, cur, ip, regs, pieces, exported, oplog>>
    /\ UNCHANGED <<parVars, archVars, signVars>>

Next == KernelStep \/ KernelRaise \/ Return \/ ExportStep \/ ExportRaise

Spec == Init /\ [][Next]_vars

-----------------------------------------------------------------------------
(* Properties of the sequential run                                        *)

\* A length given in micrometres, in model units.
Microns(um) == um * (OneMm \div 1000)

Built(part) == pieces[part] # <<>>
ExportedPieces == {exported[k].piece : k \in 1..Len(exported)}

\* The file name each part is documented to go to (lines 485-491).
FixedFileName ==
    [p \in PartSet |->
        CASE p = "front_wall" -> "gingerbread_front_wall.stl"
          [] p = "back_wall" -> "gingerbread_back_wall.stl"
          [] p = "left_side" -> "gingerbread_left_side.stl"
          [] p = "right_side" -> "gingerbread_right_side.stl"
          [] p = "roof_left" -> "gingerbread_roof_left.stl"
          [] p = "roof_right" -> "gingerbread_roof_right.stl"
          [] p = "chimney" -> "gingerbread_chimney.stl"]

\* C1: a run of main() that completes has handed exactly seven solids to
\* export, one for each part, each exported once, each the solid its
\* assembler returned, and each under its own fixed file name, no two
\* parts sharing a name.
C1_SevenExports ==
    pc = "done" =>
        /\ Len(exported) = 7
        /\ \A p \in PartSet :
              Cardinality({k \in 1..Len(exported) : exported[k].piece = p}) = 1
        /\ \A k \in 1..Len(exported) :
              /\ exported[k].filename = FixedFileName[exported[k].piece]
              /\ exported[k].solid = pieces[exported[k].piece]
              /\ exported[k].solid # <<>>
        /\ \A j, k \in 1..Len(exported) :
              j # k => exported[j].filename # exported[k].filename

C1_Witness == pc = "done" /\ Len(exported) = 7

\* C2: a failure raised while one part is being built is fatal for that
\* part only: when main() has ended on a failure inside part P's
\* assembler, each of the six other parts has been exported.
C2_FailureIsPerPart ==
    (pc = "aborted" /\ failed.op # "export") =>
        \A q \in PartSet \ {failed.part} : q \in ExportedPieces

\* The invariant of the Dimension Set: every measurement positive, door
\* and window no taller than the wall, tab shorter than the wall.
ValidDimensions(d) ==
    /\ \A f \in DOMAIN d : d[f] > 0
    /\ d.DOOR_HEIGHT <= d.WALL_HEIGHT
    /\ d.WINDOW_HEIGHT <= d.WALL_HEIGHT
    /\ d.TAB_HEIGHT < d.WALL_HEIGHT

\* C3: on dimension inputs that violate the invariant the run raises
\* before any geometry operation: no kernel operation (box, extrude,
\* union, cut, translate) is ever performed on an invalid Dimension Set.
C3_InvalidDimensionsRejected ==
    ~ValidDimensions(dims) => oplog = <<>>

\* The example dimensions of the end-to-end scenario (the script's values).
ExampleDimensions ==
    /\ dims.WALL_THICKNESS = 15 /\ dims.HOUSE_WIDTH = 400
    /\ dims.WALL_HEIGHT = 300
    /\ dims.DOOR_WIDTH = 80 /\ dims.DOOR_HEIGHT = 150 /\ dims.DOOR_OFFSET_Y = 10
    /\ dims.TAB_WIDTH = 30 /\ dims.TAB_DEPTH = 15 /\ dims.TAB_HEIGHT = 30

\* C4 as claimed: with the example dimensions the finished Front Wall has
\* the bounding box x in [-50.8, 50.8], y in [-1.905, 1.905],
\* z in [0, 76.2] mm, i.e. 101.6 x 3.81 x 76.2 mm.
C4_Original ==
    (Built("front_wall") /\ ExampleDimensions) =>
        BBox(pieces["front_wall"]) =
            [lo |-> <<-Microns(50800), -Microns(1905), 0>>,
             hi |-> <<Microns(50800), Microns(1905), Microns(76200)>>]

\* C4 amended: with the example dimensions the finished Front Wall has the
\* bounding box x in [-56.515, 56.515], y in [-1.905, 1.905],
\* z in [0, 76.2] mm, i.e. 113.03 x 3.81 x 76.2 mm: the four tabs reach
\* 5.715 mm past each side edge of the 101.6 mm base box.
C4_FrontWallBBox ==
    (Built("front_wall") /\ ExampleDimensions) =>
        BBox(pieces["front_wall"]) =
            [lo |-> <<-Microns(56515), -Microns(1905), 0>>,
             hi |-> <<Microns(56515), Microns(1905), Microns(76200)>>]

C4_Witness ==
    /\ Built("front_wall") /\ ExampleDimensions
    /\ Len(SelectSeq(pieces["front_wall"], LAMBDA e : e.op = "union")) = 4
    /\ Len(SelectSeq(pieces["front_wall"], LAMBDA e : e.op = "cut")) = 3

\* The fasteners of the finished walls, in the order add_wall_tabs made
\* them: the tabs unioned to the front wall (left, right at the first
\* position, then at the second) and the slots cut from the left side wall
\* (front edge +X, back edge -X at the first position, then the second).
FrontTabs == SelectSeq(pieces["front_wall"], LAMBDA e : e.op = "union")
SlotsOf(solid) ==
    SelectSeq(solid, LAMBDA e : e.op = "cut" /\ e.shape.kind = "box")
SideSlots == SlotsOf(pieces["left_side"])
TabAt(sign, j) == FrontTabs[2 * (j - 1) + (IF sign = -1 THEN 1 ELSE 2)].shape
SlotAt(sign, j) == SideSlots[2 * (j - 1) + (IF sign = 1 THEN 1 ELSE 2)].shape
Tolerance == dims.TAB_TOLERANCE * INCH_TO_MM
WallsBuilt == Built("front_wall") /\ Built("left_side")

\* The slot's extent along axis k is the tab's, grown by the tolerance at
\* both ends.
GrownAlong(k, tab, slot) ==
    /\ PrimLo(slot)[k] = PrimLo(tab)[k] - Tolerance
    /\ PrimHi(slot)[k] = PrimHi(tab)[k] + Tolerance

\* C5 as claimed: the positions are 0.25 and 0.75 of the span, and for the
\* same span (front wall and side wall of equal width and height) the tab
\* and the slot at each position have the same centre and differ only by
\* the tolerance: the slot box contains the tab box, larger by the
\* tolerance on every axis.
C5_Original ==
    (WallsBuilt /\ dims.HOUSE_WIDTH = dims.HOUSE_DEPTH) =>
        \A j \in 1..2, sign \in {-1, 1} :
            /\ 4 * TabAt(sign, j).off[3]
                  = (2 * j - 1) * dims.WALL_HEIGHT * INCH_TO_MM
            /\ SlotAt(sign, j).off = TabAt(sign, j).off
            /\ \A k \in 1..3 : GrownAlong(k, TabAt(sign, j), SlotAt(sign, j))

\* C5 amended: for every wall span the tab and slot z-positions are
\* exactly 0.25 and 0.75 of the wall height; at each position the tab and
\* the slot have the same centre in y and z and the slot is larger than the
\* tab by the tolerance at both ends of every axis, so that its y and z
\* extents contain the tab's; their x-centres differ: the tab is centred
\* half a tab depth outside its wall's edge, the slot on its wall's edge,
\* and for equal wall widths the slot box does not contain the tab box.
C5_TabSlotPair ==
    WallsBuilt =>
        \A j \in 1..2, sign \in {-1, 1} :
            LET tab == TabAt(sign, j)
                slot == SlotAt(sign, j)
                tab_d == dims.TAB_DEPTH * INCH_TO_MM
            IN /\ 4 * tab.off[3] = (2 * j - 1) * dims.WALL_HEIGHT * INCH_TO_MM
               /\ slot.off[3] = tab.off[3]
               /\ slot.off[2] = tab.off[2]
               /\ \A k \in 1..3 : slot.size[k] = tab.size[k] + 2 * Tolerance
               /\ \A k \in 2..3 : GrownAlong(k, tab, slot)
               /\ 2 * tab.off[1]
                     = sign * (dims.HOUSE_WIDTH * INCH_TO_MM + tab_d)
               /\ 2 * slot.off[1] = sign * dims.HOUSE_DEPTH * INCH_TO_MM
               /\ dims.HOUSE_WIDTH = dims.HOUSE_DEPTH =>
                     \/ PrimLo(tab)[1] < PrimLo(slot)[1]
                     \/ PrimHi(tab)[1] > PrimHi(slot)[1]

C5_Witness ==
    /\ WallsBuilt /\ dims.HOUSE_WIDTH = dims.HOUSE_DEPTH
    /\ Len(FrontTabs) = 4 /\ Len(SideSlots) = 4

TabZ == {FrontTabs[k].shape.off[3] : k \in 1..Len(FrontTabs)}
SlotZ(solid) == {SlotsOf(solid)[k].shape.off[3] : k \in 1..Len(SlotsOf(solid))}

\* C6 as claimed: when the Side Wall is built with a depth different from
\* the spans used to place the Front Wall's tabs (its width and its
\* height), the slot z-positions differ from the tab z-positions.
C6_Original ==
    (WallsBuilt /\ dims.HOUSE_DEPTH # dims.WALL_HEIGHT
                /\ dims.HOUSE_DEPTH # dims.HOUSE_WIDTH) =>
        SlotZ(pieces["left_side"]) # TabZ

\* C6 amended: the slot z-positions of the Side Wall and the tab
\* z-positions of the Front Wall are both 0.25 and 0.75 of the wall height
\* passed to add_wall_tabs and do not depend on the Side Wall's depth, so
\* a different depth leaves them equal; they differ when the Side Wall is
\* built with a different wall height.
C6_ZFollowsHeight ==
    WallsBuilt =>
        /\ SlotZ(pieces["left_side"]) = TabZ
        /\ TabZ = {(dims.WALL_HEIGHT * INCH_TO_MM) \div 4,
                   (dims.WALL_HEIGHT * INCH_TO_MM * 3) \div 4}
        /\ \A h \in WallHeights \ {dims.WALL_HEIGHT} :
              SlotZ(Assemble([dims EXCEPT !.WALL_HEIGHT = h], "left_side")) # TabZ

C6_Witness ==
    /\ WallsBuilt
    /\ dims.HOUSE_DEPTH # dims.WALL_HEIGHT /\ dims.HOUSE_DEPTH # dims.HOUSE_WIDTH
    /\ Len(FrontTabs) = 4 /\ Len(SideSlots) = 4

\* A tab box (tolerance 0) is in hand, placed by the assembler's own
\* translate, and the next kernel call unions it into the host.
TabInHand ==
    /\ pc = "build" /\ ip < Len(CurProgram)
    /\ CurProgram[ip + 1].op = "union"
RoundTrip == Union(Cut(regs.wall, regs.tool), regs.tool)

\* C9 as claimed: cutting the tab box out of the host and unioning it back
\* at the same transform yields the host's volume, at every tab placement
\* of the assemblers.
C9_Original ==
    TabInHand => Volume(RoundTrip) = Volume(regs.wall)

\* C9 amended: cutting the tab box B out of the host A and unioning it back
\* at the same transform yields the volume of union(A, B), which is A's
\* volume plus the volume of the part of B outside A; at every tab
\* placement of the assemblers B reaches outside A, so the result is
\* strictly larger than A.
C9_RoundTripAddsOutside ==
    TabInHand =>
        LET B == PrimBBox(regs.tool[1].shape)
            outside == BoxVolume(B)
                       - VolumeWithinUpTo(regs.wall, Len(regs.wall), B)
        IN /\ Volume(RoundTrip) = Volume(Union(regs.wall, regs.tool))
           /\ Volume(RoundTrip) = Volume(regs.wall) + outside
           /\ outside > 0

C9_Witness ==
    /\ TabInHand /\ Parts[cur] = "front_wall"
    /\ Volume(RoundTrip) > Volume(regs.wall)

-----------------------------------------------------------------------------
(* create_arched_opening called on its own, over a range of arguments      *)

\* The arguments tried: width 1..MaxArchWidth, height 1..MaxArchHeight,
\* arch_height omitted or 1..MaxArchHeight + 1 (so that it also exceeds the
\* height), in any length unit.
MaxArchWidth == 5
MaxArchHeight == 4
ArchDepths == {2, 4}

ArchInit ==
    /\ awidth \in 1..MaxArchWidth
    /\ aheight \in 1..MaxArchHeight
    /\ aarch \in {None} \cup (1..(MaxArchHeight + 1))
    /\ adepth \in ArchDepths
    /\ apoints = <<>> /\ apc = "args"
    /\ dims = DefaultDimensions
    /\ IdleMain /\ IdlePar /\ IdleSign

ArchOps == ArchedOpeningOps("openings", awidth, aheight, adepth, aarch)

\* Lines 85-117: the point list is built.
ArchProfile ==
    /\ apc = "args"
    /\ apoints' = ArchPoints(awidth, aheight, aarch)
    /\ apc' = "profile"
    /\ UNCHANGED <<awidth, aheight, aarch, adepth, mainVars, parVars, signVars>>

\* Lines 120-125: polyline, close, extrude.
ArchExtrude ==
    /\ apc = "profile"
    /\ regs' = Exec(ArchOps[1], regs)
    /\ apc' = "extruded"
    /\ UNCHANGED <<awidth, aheight, aarch, adepth, apoints, parVars, signVars>>
    /\ UNCHANGED <<dims, pc, cur, ip, pieces, exported, oplog, failed>>

\* Line 128: the translate by -depth / 2; the opening is returned.
ArchCentre ==
    /\ apc = "extruded"
    /\ regs' = Exec(ArchOps[2], regs)
    /\ apc' = "returned"
    /\ UNCHANGED <<awidth, aheight, aarch, adepth, apoints, parVars, signVars>>
    /\ UNCHANGED <<dims, pc, cur, ip, pieces, exported, oplog, failed>>

ArchNext == ArchProfile \/ ArchExtrude \/ ArchCentre

ArchSpec == ArchInit /\ [][ArchNext]_vars

\* Twice the arch height asked for: the argument, or the default width / 2.
RequestedArch2 == IF aarch = None THEN awidth ELSE 2 * aarch

\* The profile as a closed loop: edge k runs from point k to point k + 1,
\* the last one (added by close()) back to the first point.
NextIndex(pts, k) == IF k = Len(pts) THEN 1 ELSE k + 1

Orient(p, q, r) ==
    (q[1] - p[1]) * (r[2] - p[2]) - (q[2] - p[2]) * (r[1] - p[1])
Sign(x) == IF x > 0 THEN 1 ELSE IF x < 0 THEN -1 ELSE 0
\* r lies on the segment pq, given that p, q, r are collinear.
Within(p, q, r) ==
    /\ Min(p[1], q[1]) <= r[1] /\ r[1] <= Max(p[1], q[1])
    /\ Min(p[2], q[2]) <= r[2] /\ r[2] <= Max(p[2], q[2])
SegmentsMeet(a, b, c, d) ==
    LET o1 == Sign(Orient(a, b, c))
        o2 == Sign(Orient(a, b, d))
        o3 == Sign(Orient(c, d, a))
        o4 == Sign(Orient(c, d, b))
    IN \/ (o1 # o2 /\ o3 # o4)
       \/ (o1 = 0 /\ Within(a, b, c))
       \/ (o2 = 0 /\ Within(a, b, d))
       \/ (o3 = 0 /\ Within(c, d, a))
       \/ (o4 = 0 /\ Within(c, d, b))

NoZeroLengthEdge(pts) ==
    \A k \in 1..Len(pts) : pts[k] # pts[NextIndex(pts, k)]

\* No two edges of the closed loop meet, except consecutive edges at the
\* one point they share.
NonSelfIntersecting(pts) ==
    /\ NoZeroLengthEdge(pts)
    /\ \A i, j \in 1..Len(pts) :
          i < j =>
             LET a == pts[i]
                 b == pts[NextIndex(pts, i)]
                 c == pts[j]
                 d == pts[NextIndex(pts, j)]
             IN IF j = i + 1
                THEN ~(Orient(a, b, d) = 0 /\ (Within(a, b, d) \/ Within(c, d, a)))
                ELSE IF i = 1 /\ j = Len(pts)
                THEN ~(Orient(c, d, b) = 0 /\ (Within(a, b, c) \/ Within(c, d, b)))
                ELSE ~SegmentsMeet(a, b, c, d)

SymmetricProfile(pts) ==
    \A k \in 1..Len(pts) :
        /\ pts[k][1] = -pts[Len(pts) + 1 - k][1]
        /\ pts[k][2] = pts[Len(pts) + 1 - k][2]

\* The number of shoulder points the profile holds (0 or 2), read off the
\* point list: with shoulders the second point is straight above the first.
ShoulderCount(pts) == IF pts[2][1] = pts[1][1] THEN 2 ELSE 0
ShoulderZ(pts) == IF ShoulderCount(pts) = 2 THEN pts[2][2] ELSE 0
ArchPart(pts) ==
    SubSeq(pts, 2 + ShoulderCount(pts) \div 2, Len(pts) - 1 - ShoulderCount(pts) \div 2)

\* Bottom-left, (top-left shoulder), arch samples from the left (angle pi)
\* to the right (angle 0), (top-right shoulder), bottom-right.
ProfileOrder(pts) ==
    /\ pts[1] = <<-awidth * TrigScale, 0>>
    /\ pts[Len(pts)] = <<awidth * TrigScale, 0>>
    /\ ShoulderCount(pts) = 2 =>
          /\ pts[2][2] > 0
          /\ pts[Len(pts) - 1] = <<awidth * TrigScale, pts[2][2]>>
    /\ \A k \in 1..(Len(ArchPart(pts)) - 1) :
          ArchPart(pts)[k][1] < ArchPart(pts)[k + 1][1]
    /\ \A k \in 1..Len(ArchPart(pts)) :
          /\ ArchPart(pts)[k][2] > ShoulderZ(pts)
          /\ -awidth * TrigScale < ArchPart(pts)[k][1]
          /\ ArchPart(pts)[k][1] < awidth * TrigScale

ProfileBuilt == apc # "args"
ShapeOfProfile ==
    /\ NonSelfIntersecting(apoints)
    /\ SymmetricProfile(apoints)
    /\ ProfileOrder(apoints)
    /\ (ShoulderCount(apoints) = 2) = (2 * aheight > RequestedArch2)

\* C7 as claimed: for width > 0, height > 0 and arch_height <= height the
\* point list is a closed non-self-intersecting polygon, symmetric under
\* x -> -x, in the order bottom-left, shoulder (if rect_height > 0), arch
\* samples from pi down to 0, shoulder, bottom-right, with
\* 2 * ARCH_SEGMENTS + (2 if rect_height > 0 else 0) vertices minus the
\* shared corner points (at most the two ends of the arch).
C7_Original ==
    (ProfileBuilt /\ RequestedArch2 <= 2 * aheight) =>
        /\ ShapeOfProfile
        /\ Len(apoints) <= 2 * ARCH_SEGMENTS + ShoulderCount(apoints)
        /\ Len(apoints) >= 2 * ARCH_SEGMENTS + ShoulderCount(apoints) - 2

\* C7 amended: as claimed, but the polygon has exactly
\* ARCH_SEGMENTS + 1 + (2 if rect_height > 0 else 0) vertices: the two
\* bottom corners, the ARCH_SEGMENTS - 1 inner samples of the arch, and the
\* two shoulders when rect_height > 0.
C7_ArchProfile ==
    (ProfileBuilt /\ RequestedArch2 <= 2 * aheight) =>
        /\ ShapeOfProfile
        /\ Len(apoints) = ARCH_SEGMENTS + 1 + ShoulderCount(apoints)

C7_Witness ==
    /\ apc = "returned" /\ RequestedArch2 < 2 * aheight /\ aarch # None
    /\ Len(apoints) = ARCH_SEGMENTS + 3
    /\ regs.tool[1].shape.pts = apoints

\* Twice the arch height the profile was built with, read off the point
\* list: the rise from the shoulder level to the middle sample.
ObservedArch2 ==
    (apoints[(Len(apoints) + 1) \div 2][2] - ShoulderZ(apoints)) \div TrigScale

\* C8: arch_height defaults to width / 2 and is clamped to height when
\* larger; whenever the resulting arch_height equals height the rectangular
\* sub-height is 0, the two shoulder points are left out, and no two
\* consecutive points of the closed profile are equal.
C8_ClampedArch ==
    ProfileBuilt =>
        /\ ObservedArch2 = Min(RequestedArch2, 2 * aheight)
        /\ ObservedArch2 = 2 * aheight =>
              /\ ShoulderCount(apoints) = 0
              /\ ShoulderZ(apoints) = 0
              /\ Len(apoints) = ARCH_SEGMENTS + 1
              /\ NoZeroLengthEdge(apoints)

C8_Witness ==
    /\ apc = "returned" /\ RequestedArch2 > 2 * aheight
    /\ ObservedArch2 = 2 * aheight
    /\ Len(apoints) = ARCH_SEGMENTS + 1

-----------------------------------------------------------------------------
(* The seven assembler calls of main() run as concurrent pipelines         *)

\* Each pipeline advances by a whole phase of its assembler (the base
\* solid, the openings, the fasteners, the finish).  A phase reads the
\* module constants as they are when it starts, runs its kernel calls on
\* the pipeline's own locals, and leaves in the module constants whatever
\* its calls write there.
ParDimensionSets ==
    {d \in DimensionSets :
        /\ d.HOUSE_DEPTH = 300 /\ d.WALL_HEIGHT = 300
        /\ d.DOOR_HEIGHT = 150 /\ d.TAB_HEIGHT = 30 /\ d.HOUSE_WIDTH = 400}

\* The last call of the phase that starts after call n of prog.
RECURSIVE PhaseEnd(_, _)
PhaseEnd(prog, n) ==
    IF n + 1 < Len(prog) /\ prog[n + 2].phase = prog[n + 1].phase
    THEN PhaseEnd(prog, n + 1) ELSE n + 1

RECURSIVE GlobalsAfterAll(_, _)
GlobalsAfterAll(d, calls) ==
    IF calls = <<>> THEN d
    ELSE GlobalsAfterAll(GlobalsAfter(d, Head(calls)), Tail(calls))

\* One assembler run from call n to its return, phase after phase, with
\* nothing else running: its locals and the module constants at the end.
RECURSIVE AssembleFrom(_, _, _, _)
AssembleFrom(d, r, part, n) ==
    LET prog == Program(d, part)
        calls == SubSeq(prog, n + 1, PhaseEnd(prog, n))
    IN IF n >= Len(prog) THEN [regs |-> r, dims |-> d]
       ELSE AssembleFrom(GlobalsAfterAll(d, calls), Run(r, calls),
                         part, PhaseEnd(prog, n))

\* The script is first run as written: main() calls the assemblers one
\* after the other (lines 473-481) and pieces keeps its locals.  Then the
\* script is loaded afresh, so the module constants are as in dims0, and
\* the seven calls run as concurrent pipelines.  A pipeline that has
\* returned is at position Returned.
Returned == -1
ParInit ==
    /\ dims \in ParDimensionSets
    /\ dims0 = dims
    /\ ppc = [p \in PartSet |-> 0]
    /\ pregs = [p \in PartSet |-> NoRegs]
    /\ pieces = [p \in PartSet |-> <<>>]
    /\ pc = "sequential" /\ cur = 1 /\ ip = 0 /\ regs = NoRegs
    /\ exported = <<>> /\ oplog = <<>> /\ failed = NoFailure
    /\ IdleArch /\ IdleSign

\* main() calls its next assembler and binds the local (lines 473-481).
SeqAssemble ==
    /\ pc = "sequential" /\ cur <= NParts
    /\ LET r == AssembleFrom(dims, NoRegs, Parts[cur], 0)
       IN /\ pieces' = [pieces EXCEPT ![Parts[cur]] = r.regs.wall]
          /\ dims' = r.dims
    /\ cur' = cur + 1
    /\ UNCHANGED <<pc, ip, regs, exported, oplog, failed>>
    /\ UNCHANGED <<parVars, archVars, signVars>>

\* The script is loaded afresh and the seven pipelines are started.
ParStart ==
    /\ pc = "sequential" /\ cur = NParts + 1
    /\ pc' = "parallel" /\ cur' = 0
    /\ dims' = dims0
    /\ UNCHANGED <<ip, regs, pieces, exported, oplog, failed>>
    /\ UNCHANGED <<parVars, archVars, signVars>>

ParPhase(p) ==
    /\ pc = "parallel" /\ ppc[p] # Returned
    /\ LET prog == Program(dims, p)
           last == PhaseEnd(prog, ppc[p])
           calls == SubSeq(prog, ppc[p] + 1, last)
       IN /\ pregs' = [pregs EXCEPT ![p] = Run(@, calls)]
          /\ dims' = GlobalsAfterAll(dims, calls)
          /\ ppc' = [ppc EXCEPT ![p] = IF last = Len(prog) THEN Returned ELSE last]
    /\ UNCHANGED <<dims0, archVars, signVars>>
    /\ UNCHANGED <<pc, cur, ip, regs, pieces, exported, oplog, failed>>

ParNext == SeqAssemble \/ ParStart \/ (\E p \in PartSet : ParPhase(p))

ParSpec == ParInit /\ [][ParNext]_vars

PipelineDone(p) == ppc[p] = Returned

\* C10: the seven pipelines share no mutable state: no assembler or helper
\* writes a module-level dimension constant, and every interleaving of the
\* pipelines yields for each part the solid of the sequential run of main().
C10_PipelinesIndependent ==
    /\ dims = dims0
    /\ \A p \in PartSet :
          PipelineDone(p) => pregs[p].wall = pieces[p]

\* The chimney and a roof pipeline have finished before the front wall's
\* has started and while the back wall's is half-way: not the order of
\* main().
C10_Witness ==
    /\ pc = "parallel"
    /\ PipelineDone("chimney") /\ pregs["chimney"].wall # <<>>
    /\ PipelineDone("roof_right")
    /\ ppc["front_wall"] = 0
    /\ ppc["back_wall"] > 0
    /\ pregs["chimney"].wall = pieces["chimney"]
    /\ pregs["roof_right"].wall = pieces["roof_right"]

-----------------------------------------------------------------------------
(* The order of the kernel operations of an assembler                      *)

\* What a solid records of the operations that made it: for the base and
\* for every cut and union, in order, the operation and the kind of tool.
Steps(solid) ==
    [i \in 1..Len(solid) |-> <<solid[i].op, solid[i].shape.kind>>]
Repeat(x, n) == [i \in 1..n |-> x]

\* Arched openings are extruded profiles, tabs and slots are boxes.
ExpectedSteps(part) ==
    CASE part = "front_wall" ->
            << <<"base", "box">> >> \o Repeat(<<"cut", "prism">>, 3)
                                    \o Repeat(<<"union", "box">>, 4)
      [] part = "back_wall" ->
            << <<"base", "box">>, <<"cut", "prism">> >>
                \o Repeat(<<"union", "box">>, 4)
      [] part \in {"left_side", "right_side"} ->
            << <<"base", "prism">>, <<"cut", "prism">> >>
                \o Repeat(<<"cut", "box">>, 4)
      [] part \in {"roof_left", "roof_right"} ->
            << <<"base", "box">> >> \o Repeat(<<"union", "box">>, 2)
      [] part = "chimney" -> << <<"base", "box">>, <<"cut", "box">> >>

\* The x positions of the opening cuts of a part, in order.
OpeningsX(solid) ==
    LET cuts == SelectSeq(solid, LAMBDA e : e.op = "cut" /\ e.shape.kind = "prism")
    IN [i \in 1..Len(cuts) |-> cuts[i].shape.off[1]]
ExpectedOpeningsX(part) ==
    CASE part = "front_wall" ->
            <<0, -((dims.HOUSE_WIDTH * INCH_TO_MM) \div 3),
              (dims.HOUSE_WIDTH * INCH_TO_MM) \div 3>>
      [] part \in {"back_wall", "left_side", "right_side"} -> <<0>>
      [] OTHER -> <<>>

CallsOf(part) == SelectSeq(oplog, LAMBDA e : e.part = part)
PhaseRank(ph) ==
    CASE ph = "base" -> 1 [] ph = "openings" -> 2
      [] ph = "fasteners" -> 3 [] ph = "finish" -> 4

\* The calls logged for a part so far go base, openings, fasteners: the
\* first call makes the base solid and no call of a later phase precedes
\* a call of an earlier one.
InPhaseOrder(calls) ==
    /\ calls # <<>> =>
          calls[1].phase = "base" /\ calls[1].op \in {"box", "extrude"}
    /\ \A j, k \in 1..Len(calls) :
          j < k =>
             /\ PhaseRank(calls[j].phase) <= PhaseRank(calls[k].phase)
             /\ ~(calls[j].phase = "fasteners" /\ calls[k].phase = "openings")

\* C11: every assembler makes its base solid, then all its opening cuts,
\* then all its fastener operations, and returns only after the last one:
\* front wall box, 3 opening cuts (x = 0, -width/3, +width/3), 4 tab unions;
\* back wall box, 1 centred cut, 4 unions; side wall gable, 1 centred cut,
\* 4 slot cuts, no union; roof panel box, no cut, 2 unions; chimney box,
\* 1 cut of the inner box, no fastener.
C11_FixedOrder ==
    \A p \in PartSet :
        /\ InPhaseOrder(CallsOf(p))
        /\ Built(p) =>
              /\ Steps(pieces[p]) = ExpectedSteps(p)
              /\ OpeningsX(pieces[p]) = ExpectedOpeningsX(p)
              /\ Len(CallsOf(p)) = Len(Program(dims, p))
              /\ Len(SelectSeq(CallsOf(p), LAMBDA e : e.op \in {"cut", "union"}))
                    = Len(pieces[p]) - 1

C11_Witness ==
    /\ pc = "export" /\ \A p \in PartSet : Built(p)
    /\ Len(pieces["front_wall"]) = 8 /\ Len(pieces["left_side"]) = 6
    /\ Len(pieces["chimney"]) = 2

-----------------------------------------------------------------------------
(* Where the tabs of the front and back walls sit                          *)

TabsOf(solid) == SelectSeq(solid, LAMBDA e : e.op = "union")
HalfWidth == (dims.HOUSE_WIDTH * INCH_TO_MM) \div 2

\* The tab box's face towards the wall lies on the wall's side face.
InnerFaceOnEdge(tab) ==
    IF tab.off[1] > 0 THEN PrimLo(tab)[1] = HalfWidth
    ELSE PrimHi(tab)[1] = -HalfWidth

\* C12: on the front and back walls every tab of add_wall_tabs sits flush
\* against the wall's side face and is not embedded in it: the tab box's
\* inner face lies on the wall edge x = +-wall_width / 2, and the tab box
\* and the wall's base box share no interior volume, whatever the tab
\* width and depth.
C12_TabsFlush ==
    \A p \in {"front_wall", "back_wall"} :
        Built(p) =>
            \A k \in 1..Len(TabsOf(pieces[p])) :
                /\ InnerFaceOnEdge(TabsOf(pieces[p])[k].shape)
                /\ IsEmptyBox(MeetBox(PrimBBox(TabsOf(pieces[p])[k].shape),
                                      PrimBBox(pieces[p][1].shape)))

-----------------------------------------------------------------------------
(* Where the arched openings lie along the depth axis                      *)

OpeningsOf(solid) ==
    SelectSeq(solid, LAMBDA e : e.op = "cut" /\ e.shape.kind = "prism")
OpeningDepth == dims.WALL_THICKNESS * INCH_TO_MM + OneMm
HalfThickness == (dims.WALL_THICKNESS * INCH_TO_MM) \div 2

\* C13: the solid create_arched_opening returns is centred on the profile
\* plane along the depth axis, its extent along Y being
\* [-depth / 2, +depth / 2]; so every opening the assemblers cut (depth =
\* thickness + 1 mm) extends past both faces of its wall (wall extent
\* [-thickness / 2, +thickness / 2]) and penetrates it, for the front, the
\* back and the side walls.
C13_OpeningsPenetrate ==
    \A p \in {"front_wall", "back_wall", "left_side", "right_side"} :
        Built(p) =>
            \A k \in 1..Len(OpeningsOf(pieces[p])) :
                LET opening == OpeningsOf(pieces[p])[k].shape
                IN /\ PrimLo(opening)[2] = -(OpeningDepth \div 2)
                   /\ PrimHi(opening)[2] = OpeningDepth \div 2
                   /\ PrimLo(opening)[2] < -HalfThickness
                   /\ PrimHi(opening)[2] > HalfThickness
                   /\ ~IsEmptyBox(MeetBox(PrimBBox(opening),
                                          PrimBBox(pieces[p][1].shape)))

-----------------------------------------------------------------------------
(* Where the roof tabs sit                                                 *)

RoofWidth == (dims.HOUSE_WIDTH + 2 * dims.ROOF_OVERHANG) * INCH_TO_MM

\* Two boxes joined over a face or a volume: their closed extents meet on
\* every axis and over more than a point on at least two.
JoinedBoxes(a, b) ==
    /\ \A k \in 1..3 : MeetBox(a, b).lo[k] <= MeetBox(a, b).hi[k]
    /\ Cardinality({k \in 1..3 : MeetBox(a, b).lo[k] < MeetBox(a, b).hi[k]}) >= 2

\* C14: each of the two tabs add_roof_tabs adds to the panel of
\* create_roof_panel is centred at x = -0.25 or +0.25 roof_width, with its
\* centre tab_height / 2 below the bottom face of the translated panel, so
\* that the tab's top face touches the panel's bottom face and the union
\* is one connected solid.
C14_RoofTabsTouch ==
    \A p \in {"roof_left", "roof_right"} :
        Built(p) =>
            /\ Len(TabsOf(pieces[p])) = 2
            /\ \A k \in 1..2 :
                  LET tab == TabsOf(pieces[p])[k].shape
                      panel == pieces[p][1].shape
                  IN /\ tab.off[1] = (IF k = 1 THEN -1 ELSE 1) * (RoofWidth \div 4)
                     /\ tab.off[3] = PrimLo(panel)[3]
                                        - (dims.TAB_HEIGHT * INCH_TO_MM) \div 2
                     /\ PrimHi(tab)[3] = PrimLo(panel)[3]
                     /\ JoinedBoxes(PrimBBox(tab), PrimBBox(panel))

-----------------------------------------------------------------------------
(* create_text_piece of the two holiday-sign scripts                       *)

\* The text constants, in hundredths of an inch; both scripts hold the
\* same TEXT_HEIGHT and TEXT_FONT_SIZE, and the standalone one writes the
\* 0.7 inches per character as a literal.
TEXT_HEIGHT == 50
TEXT_FONT_SIZE == 100
TEXT_BACKING_WIDTH_PER_CHAR == 70

FONT_PATHS(v) ==
    IF v = "freecad"
    THEN <<"DejaVuSans.ttf", "Helvetica.ttc", "arial.ttf">>
    ELSE <<"DejaVuSans.ttf", "FreeSans.ttf", "Helvetica.ttc", "arial.ttf">>
FontFiles == {"DejaVuSans.ttf", "FreeSans.ttf", "Helvetica.ttc", "arial.ttf"}

\* get_font_path: the first of FONT_PATHS that exists, or None.
RECURSIVE FirstPresent(_, _)
FirstPresent(paths, present) ==
    IF paths = <<>> THEN NoFont
    ELSE IF Head(paths) \in present THEN Head(paths)
    ELSE FirstPresent(Tail(paths), present)
get_font_path(v, present) == FirstPresent(FONT_PATHS(v), present)

\* The extruded text: as high as the font size, text_height_mm thick.
TextSolid(v, n) ==
    <<[op |-> "base",
       shape |-> [kind |-> "text",
                  size |-> <<0, TEXT_FONT_SIZE * INCH_TO_MM, TEXT_HEIGHT * INCH_TO_MM>>,
                  plane |-> "XY", pts |-> <<>>, scale |-> 1, off |-> <<0, 0, 0>>]]>>

\* The backing plate: Part.makeBox puts a corner at the origin, the
\* CadQuery box is centred.
FallbackBox(v, n) ==
    LET text_height_mm == TEXT_HEIGHT * INCH_TO_MM
        font_size_mm == TEXT_FONT_SIZE * INCH_TO_MM
        height_mm == (font_size_mm * 3) \div 2
    IN IF v = "freecad"
       THEN LET width_mm == n * TEXT_BACKING_WIDTH_PER_CHAR * INCH_TO_MM
            IN Translate(Box(width_mm, height_mm, text_height_mm),
                         <<width_mm \div 2, height_mm \div 2, text_height_mm \div 2>>)
       ELSE Box((n * 7 * font_size_mm) \div 10, height_mm, text_height_mm)

\* A handler that catches only the missing-font error.
ExceptTargetFontOnly(v, exc) ==
    IF exc = "FileNotFoundError" THEN "fallback" ELSE "raised"

\* Where an exception raised inside the try block goes: `except Exception`
\* leads to the fallback code.
ExceptTarget(v, exc) == "fallback"

\* len(text) of the calls tried: 1..MaxTextLen and the "Happy Holidays" of
\* main().
MaxTextLen == 3
DefaultTextLen == 14
TextLengths == (1..MaxTextLen) \cup {DefaultTextLen}

SignInit ==
    /\ installed \in SUBSET FontFiles
    /\ stext \in TextLengths
    /\ spc = [v \in Variants |-> "start"]
    /\ spath = [v \in Variants |-> NoFont]
    /\ sresult = [v \in Variants |-> <<>>]
    /\ scaught = [v \in Variants |-> ""]
    /\ dims = DefaultDimensions
    /\ IdleMain /\ IdlePar /\ IdleArch

Raise(v, exc) ==
    /\ scaught' = [scaught EXCEPT ![v] = exc]
    /\ spc' = [spc EXCEPT ![v] = ExceptTarget(v, exc)]

\* `import Draft` fails inside the try block of the FreeCAD script.
ImportDraftRaise(v) ==
    /\ v = "freecad" /\ spc[v] = "start"
    /\ Raise(v, "ImportError")
    /\ UNCHANGED <<installed, stext, spath, sresult>>
    /\ UNCHANGED <<mainVars, parVars, archVars>>

\* font_path = get_font_path(); without a font the FreeCAD script raises
\* FileNotFoundError inside its try block and the standalone script skips
\* its `if font_path:` block.
GetFontPath(v) ==
    /\ spc[v] = "start"
    /\ spath' = [spath EXCEPT ![v] = get_font_path(v, installed)]
    /\ IF get_font_path(v, installed) # NoFont
       THEN spc' = [spc EXCEPT ![v] = "text"] /\ UNCHANGED scaught
       ELSE IF v = "freecad" THEN Raise(v, "FileNotFoundError")
       ELSE spc' = [spc EXCEPT ![v] = "fallback"] /\ UNCHANGED scaught
    /\ UNCHANGED <<installed, stext, sresult>>
    /\ UNCHANGED <<mainVars, parVars, archVars>>

\* The text is created and returned.
TextCreated(v) ==
    /\ spc[v] = "text"
    /\ sresult' = [sresult EXCEPT ![v] = TextSolid(v, stext)]
    /\ spc' = [spc EXCEPT ![v] = "returned"]
    /\ UNCHANGED <<installed, stext, spath, scaught>>
    /\ UNCHANGED <<mainVars, parVars, archVars>>

\* A call of the text creation raises.
TextRaise(v) ==
    /\ spc[v] = "text"
    /\ Raise(v, "Exception")
    /\ UNCHANGED <<installed, stext, spath, sresult>>
    /\ UNCHANGED <<mainVars, parVars, archVars>>

\* The fallback code builds the backing plate and returns it.
Fallback(v) ==
    /\ spc[v] = "fallback"
    /\ sresult' = [sresult EXCEPT ![v] = FallbackBox(v, stext)]
    /\ spc' = [spc EXCEPT ![v] = "returned"]
    /\ UNCHANGED <<installed, stext, spath, scaught>>
    /\ UNCHANGED <<mainVars, parVars, archVars>>

SignNext ==
    \E v \in Variants :
        \/ ImportDraftRaise(v) \/ GetFontPath(v) \/ TextCreated(v)
        \/ TextRaise(v) \/ Fallback(v)

SignSpec == SignInit /\ [][SignNext]_vars

FellBack(v) == spath[v] = NoFont \/ scaught[v] # ""
PlateSize(n) ==
    <<n * 70 * INCH_TO_MM, (3 * TEXT_FONT_SIZE * INCH_TO_MM) \div 2,
      TEXT_HEIGHT * INCH_TO_MM>>

\* C15: in both variants create_text_piece never propagates a failure of
\* text creation: whatever the fonts present and whether text creation
\* succeeds or raises, it returns a solid; whenever no font is found or
\* text creation raised, that solid is the backing-plate box of width
\* len(text) * 0.7 in, height 1.5 font sizes and thickness the text
\* extrusion height, the same dimensions in both variants.
C15_TextPieceFallsBack ==
    /\ \A v \in Variants :
          /\ spc[v] # "raised"
          /\ spc[v] = "returned" =>
                /\ Len(sresult[v]) = 1
                /\ FellBack(v) =>
                      /\ sresult[v][1].shape.kind = "box"
                      /\ sresult[v][1].shape.size = PlateSize(stext)
    /\ (\A v \in Variants : spc[v] = "returned" /\ FellBack(v)) =>
          sresult["freecad"][1].shape.size = sresult["standalone"][1].shape.size

C15_Witness ==
    /\ spc["freecad"] = "returned" /\ spc["standalone"] = "returned"
    /\ spath["freecad"] = NoFont /\ spath["standalone"] # NoFont
    /\ scaught["freecad"] = "FileNotFoundError"
    /\ scaught["standalone"] = "Exception"
    /\ stext = DefaultTextLen
    /\ sresult["standalone"][1].shape.size = PlateSize(DefaultTextLen)

====
